---- MODULE Spec2Model ----
(***************************************************************************)
(* Verification model of the ECG firmware: the dual-input sketch (two      *)
(* analog channels -> cascaded biquads -> auto-calibration -> six leads),  *)
(* the lead derivation of the JSON sender and the calibration square-wave  *)
(* sketch; and of the visualizer: its serial read loop, its connect and    *)
(* disconnect calls and the automatic start of a recording.                *)
(*                                                                         *)
(* The visualizer's async functions are modelled one step per await; a     *)
(* connect() call keeps the values of the React state it was created with. *)
(*                                                                         *)
(* Number representation.  The sketches compute in 32-bit float.  Here a   *)
(* real value v is the integer v * FX (FX = 2: one model unit is 0.5).     *)
(* Results of a multiplication by a coefficient or of a division are       *)
(* rounded to the nearest multiple of GRID, so every sum of two such       *)
(* values is even and the multiplication by 0.5 the code uses is exact, as *)
(* it is in binary floating point.  A gain is kept as the exact quotient   *)
(* num/den of two values.                                                  *)
(*                                                                         *)
(* Time.  micros() on the 16 MHz board counts in steps of 4 us; the clock  *)
(* clk counts these steps since power-up, so the 32-bit microsecond        *)
(* counter wraps every 2^32 / 4 = 2^30 steps.  millis() is the same clock  *)
(* in milliseconds; its own wrap (49.7 days) lies beyond the runs checked. *)
(***************************************************************************)
EXTENDS Integers, Sequences, FiniteSets, TLC

\* ---------------------------------------------------------------- bounds
MaxTicks == 3
MaxAdvance == 3
MaxPairTicks == 3
MaxSqTicks == 63
MaxConnects == 2
MaxLines == 2
MaxCalls == 4

\* ------------------------------------------------------ program constants
SAMPLE_RATE_HZ == 125
CALIBRATION_TIME_MS == 5000
NSTAGES == 4
ADC_MAX == 1023
DEFAULT_SAMPLE_RATE == 125
DEFAULT_SECONDS == 5
CAPTURE_SECONDS == 10
VREF_MV == 5000
UsPerStep == 4
FX == 2
GRID == 2
COEF == 1000

MV_PER_UNIT == 1 * FX
REF_MV == 1 * FX
AMP_FLOOR == 1 * FX
SENTINEL == 1000000000 * FX
INVERT_CH1 == FALSE
INVERT_CH2 == FALSE

\* 2^32 microseconds, in clock steps
WrapSteps == 1073741824
intervalUs == 1000000 \div SAMPLE_RATE_HZ
IntervalSteps == intervalUs \div UsPerStep
StepsPerMs == 1000 \div UsPerStep

\* ------------------------------------------------------------ environment
\* values analogRead can return in the model (ADC range 0..ADC_MAX)
RawValues == {0, ADC_MAX}
\* clock values at the end of setup(), which waits in while(!Serial): shortly
\* after power-up, or three intervals before the microsecond counter wraps
StartClk == {130, WrapSteps - 3 * IntervalSteps}
\* time that passes between two calls of loop()
TimeSteps == {IntervalSteps \div 2, IntervalSteps, CALIBRATION_TIME_MS * StepsPerMs}
\* time between the micros() read of loop() and the millis() read of
\* updateCalibration()
ProcSteps == {0, StepsPerMs}
\* lead values (already scaled by FX) handed to the lead derivations
LeadValues == {-3 * FX, -1 * FX, 0, 1 * FX, 2 * FX, ADC_MAX * FX}
\* the constant inputs of channel 1 and channel 2 in the constant-input scenario
ConstInput == <<100, 150>>
\* the two values channel 1 alternates between in the alternating scenario
AltInput == {-1, 1}

\* -------------------------------------------------------------- arithmetic
Max2(a, b) == IF a > b THEN a ELSE b
\* n / d rounded to the nearest integer, d > 0
RDiv(n, d) == (n + (d \div 2)) \div d
\* n / d rounded to the nearest representable value
RoundQ(n, d) == GRID * RDiv(n, GRID * d)
\* coefficient c (scaled by COEF) times value z
MulC(c, z) == RoundQ(c * z, COEF)
\* the factor 0.5f dropped
Half_none(x) == x
\* 0.5f * x, exact
Half(x) == x \div 2

micros(c) == c % WrapSteps
millis(c) == c \div StepsPerMs
\* a - b in unsigned 32-bit microsecond arithmetic
SubU32(a, b) == (a - b + WrapSteps) % WrapSteps
AddU32(a, b) == (a + b) % WrapSteps

\* ------------------------------------------------------------------ filter
Channels == {0, 1}
Stages == 0 .. (NSTAGES - 1)

Coefs(a1, a2, b0, b1, b2) ==
  [a1 |-> a1, a2 |-> a2, b0 |-> b0, b1 |-> b1, b2 |-> b2, z1 |-> 0, z2 |-> 0]

StageTable ==
  [i \in Stages |->
     CASE i = 0 -> Coefs(707, 156, 281, 561, 281)
       [] i = 1 -> Coefs(950, 541, 1000, 2000, 1000)
       [] i = 2 -> Coefs(-1954, 954, 1000, -2000, 1000)
       [] i = 3 -> Coefs(-1980, 981, 1000, -2000, 1000)]

\* a cascade that passes its input on unchanged (the end-to-end scenarios)
PassThroughTable == [i \in Stages |-> Coefs(0, 0, COEF, 0, 0)]
passThroughFilter == [ch \in Channels |-> PassThroughTable]
initFilter == [ch \in Channels |-> StageTable]

\* z1 assigned before z2, so that z2 takes the new x
processStage_shiftLate(s, in) ==
  LET x == in - MulC(s.a1, s.z1) - MulC(s.a2, s.z2)
      out == MulC(s.b0, x) + MulC(s.b1, s.z1) + MulC(s.b2, s.z2)
  IN  [s |-> [s EXCEPT !.z1 = x, !.z2 = x], out |-> out]
\* one biquad section: the new stage record and its output
processStage(s, in) ==
  LET x == in - MulC(s.a1, s.z1) - MulC(s.a2, s.z2)
      out == MulC(s.b0, x) + MulC(s.b1, s.z1) + MulC(s.b2, s.z2)
  IN  [s |-> [s EXCEPT !.z2 = s.z1, !.z1 = x], out |-> out]

RECURSIVE Cascade(_, _, _, _)
Cascade(stv, ch, i, y) ==
  IF i = NSTAGES THEN [st |-> stv, y |-> y]
  ELSE LET r == processStage(stv[ch][i], y)
       IN  Cascade([stv EXCEPT ![ch][i] = r.s], ch, i + 1, r.out)

\* one state array used for both channels
ECGFilter_shared(stv, ch, input) == Cascade(stv, 0, 0, input)
\* the whole filter array after the call, and the filtered sample
ECGFilter(stv, ch, input) == Cascade(stv, ch, 0, input)

\* lines 130-131: each channel filtered with its own state
filterBoth(stv, raw1, raw2) ==
  LET r1 == ECGFilter(stv, 0, raw1)
      r2 == ECGFilter(r1.st, 1, raw2)
  IN  [st |-> r2.st, f1 |-> r1.y, f2 |-> r2.y]

\* ------------------------------------------------------------- calibration
\* the statics of lines 68-73
calibInit(startMs) ==
  [calibrated |-> FALSE, calibStartMs |-> startMs,
   min1_ |-> SENTINEL, max1_ |-> -SENTINEL,
   min2_ |-> SENTINEL, max2_ |-> -SENTINEL,
   baseline1 |-> 0, baseline2 |-> 0,
   gain1 |-> [num |-> 1 * FX, den |-> 1 * FX],
   gain2 |-> [num |-> 1 * FX, den |-> 1 * FX]]

\* the comparison of the running maximum pasted into the minimum
runMin_wrongCmp(f, m) == IF f > m THEN f ELSE m
runMin(f, m) == IF f < m THEN f ELSE m
\* the comparison of the running minimum pasted into the maximum
runMax_wrongCmp(f, m) == IF f < m THEN f ELSE m
runMax(f, m) == IF f > m THEN f ELSE m
\* the deadline test dropped
calibDue_always(elapsedMs) == elapsedMs >= 0
\* > for >=
calibDue_strict(elapsedMs) == elapsedMs > CALIBRATION_TIME_MS
\* the deadline test, on the elapsed milliseconds
calibDue(elapsedMs) == elapsedMs >= CALIBRATION_TIME_MS
\* a floor of 0.5 for 1.0
floorAmp_small(amp) == IF amp < 1 THEN 1 ELSE amp
\* "avoid huge gain"
floorAmp(amp) == IF amp < AMP_FLOOR THEN AMP_FLOOR ELSE amp

\* baseline and gain recomputed on every tick after the deadline
updateCalibration_track(c, f1, f2, ms) ==
  LET mn1 == runMin(f1, c.min1_)
      mx1 == runMax(f1, c.max1_)
      mn2 == runMin(f2, c.min2_)
      mx2 == runMax(f2, c.max2_)
      o == [c EXCEPT !.min1_ = mn1, !.max1_ = mx1, !.min2_ = mn2, !.max2_ = mx2]
  IN  IF calibDue(ms - c.calibStartMs)
      THEN [o EXCEPT !.baseline1 = Half(mx1 + mn1),
                     !.baseline2 = Half(mx2 + mn2),
                     !.gain1 = [num |-> REF_MV, den |-> floorAmp(Half(mx1 - mn1))],
                     !.gain2 = [num |-> REF_MV, den |-> floorAmp(Half(mx2 - mn2))],
                     !.calibrated = TRUE]
      ELSE o
\* calibration re-armed by a sample outside the observed range
updateCalibration_rearm(c, f1, f2, ms) ==
  LET mn1 == runMin(f1, c.min1_)
      mx1 == runMax(f1, c.max1_)
      mn2 == runMin(f2, c.min2_)
      mx2 == runMax(f2, c.max2_)
      o == [c EXCEPT !.min1_ = mn1, !.max1_ = mx1, !.min2_ = mn2, !.max2_ = mx2]
  IN  IF ~c.calibrated /\ calibDue(ms - c.calibStartMs)
      THEN [o EXCEPT !.baseline1 = Half(mx1 + mn1),
                     !.baseline2 = Half(mx2 + mn2),
                     !.gain1 = [num |-> REF_MV, den |-> floorAmp(Half(mx1 - mn1))],
                     !.gain2 = [num |-> REF_MV, den |-> floorAmp(Half(mx2 - mn2))],
                     !.calibrated = TRUE]
      ELSE [o EXCEPT !.calibrated = c.calibrated /\ mn1 = c.min1_ /\ mx1 = c.max1_]
\* c: calibration state, f1/f2: filtered samples, ms: the millis() it reads
updateCalibration(c, f1, f2, ms) ==
  LET mn1 == runMin(f1, c.min1_)
      mx1 == runMax(f1, c.max1_)
      mn2 == runMin(f2, c.min2_)
      mx2 == runMax(f2, c.max2_)
      o == [c EXCEPT !.min1_ = mn1, !.max1_ = mx1, !.min2_ = mn2, !.max2_ = mx2]
  IN  IF ~c.calibrated /\ calibDue(ms - c.calibStartMs)
      THEN [o EXCEPT !.baseline1 = Half(mx1 + mn1),
                     !.baseline2 = Half(mx2 + mn2),
                     !.gain1 = [num |-> REF_MV, den |-> floorAmp(Half(mx1 - mn1))],
                     !.gain2 = [num |-> REF_MV, den |-> floorAmp(Half(mx2 - mn2))],
                     !.calibrated = TRUE]
      ELSE o

\* f * gain - baseline
scale_gainFirst(f, baseline, gain) == RoundQ(f * gain.num, gain.den) - baseline
\* (f - baseline) * gain
scale(f, baseline, gain) == RoundQ((f - baseline) * gain.num, gain.den)
\* the filtered sample passed on whatever the flag
apply_skipped(isCal, f, baseline, gain) == f
\* lines 137-138: baseline removal + gain after calibration, else pass-through
apply(isCal, f, baseline, gain) == IF isCal THEN scale(f, baseline, gain) ELSE f
\* lines 141-142
toMv(s) == RoundQ(s * MV_PER_UNIT, FX)

\* -------------------------------------------------------- lead derivation
\* aVF computed from ll twice
emitJson_avf(lead1_mv, lead2_mv) ==
  LET lead3_mv == lead2_mv - lead1_mv
      ra == 0
      la == lead1_mv
      ll == lead2_mv
  IN  [lead1 |-> lead1_mv, lead2 |-> lead2_mv, lead3 |-> lead3_mv,
       avr |-> ra - Half(la + ll),
       avl |-> la - Half(ra + ll),
       avf |-> ll - Half(ra + ll)]
\* the six values emitJson prints, in print order
emitJson(lead1_mv, lead2_mv) ==
  LET lead3_mv == lead2_mv - lead1_mv
      ra == 0
      la == lead1_mv
      ll == lead2_mv
  IN  [lead1 |-> lead1_mv, lead2 |-> lead2_mv, lead3 |-> lead3_mv,
       avr |-> ra - Half(la + ll),
       avl |-> la - Half(ra + ll),
       avf |-> ll - Half(ra + la)]

\* JSON sender, simulated mode: lead1/lead2 come from ecgSynth
senderSimulated(lead1, lead2) ==
  LET lead3 == lead2 - lead1
      la == lead1
      ll == lead2
      ra == 0
  IN  [lead1 |-> lead1, lead2 |-> lead2, lead3 |-> lead3,
       avr |-> ra - Half(la + ll),
       avl |-> la - Half(ra + ll),
       avf |-> ll - Half(ra + la)]

\* lead3 with its operands exchanged
senderAnalog_lead3(leadI_mv, leadII_mv) ==
  LET lead1 == leadI_mv
      lead2 == leadII_mv
      lead3 == lead1 - lead2
      la == lead1
      ll == lead2
      ra == 0
  IN  [lead1 |-> lead1, lead2 |-> lead2, lead3 |-> lead3,
       avr |-> ra - Half(la + ll),
       avl |-> la - Half(ra + ll),
       avf |-> ll - Half(ra + la)]
\* JSON sender, analog mode: leadI_mv/leadII_mv are the analogRead values
senderAnalog(leadI_mv, leadII_mv) ==
  LET lead1 == leadI_mv
      lead2 == leadII_mv
      lead3 == lead2 - lead1
      la == lead1
      ll == lead2
      ra == 0
  IN  [lead1 |-> lead1, lead2 |-> lead2, lead3 |-> lead3,
       avr |-> ra - Half(la + ll),
       avl |-> la - Half(ra + ll),
       avf |-> ll - Half(ra + la)]

NoRecord == [lead1 |-> 0, lead2 |-> 0, lead3 |-> 0, avr |-> 0, avl |-> 0, avf |-> 0]
NoTick == [raw1 |-> 0, raw2 |-> 0, f1 |-> 0, f2 |-> 0, s1 |-> 0, s2 |-> 0,
           elapsedMs |-> 0, wasCal |-> FALSE, fired |-> FALSE,
           steps |-> <<>>]

\* avr and avl printed in the other order
printJson_swapped(r) ==
  << <<"lead1", r.lead1>>, <<"lead2", r.lead2>>, <<"lead3", r.lead3>>,
     <<"avl", r.avl>>, <<"avr", r.avr>>, <<"avf", r.avf>> >>
\* the text emitJson writes to Serial: the keys in print order, each with its
\* value (all model values are multiples of 0.5, which three decimals print
\* without rounding)
printJson(r) ==
  << <<"lead1", r.lead1>>, <<"lead2", r.lead2>>, <<"lead3", r.lead3>>,
     <<"avr", r.avr>>, <<"avl", r.avl>>, <<"avf", r.avf>> >>

\* ------------------------------------------------------------------ state
VARIABLES
  clk,        \* the hardware clock, in steps of UsPerStep since power-up
  lastInit,   \* loop()'s static lastUs has been initialised
  lastUs,     \* loop()'s static lastUs
  st,         \* st[channel][stage]
  cal,        \* the calibration statics
  rec,        \* the last record written to Serial
  nEmit,      \* number of records written to Serial
  ticks,      \* number of times lastUs was advanced
  lastUs0,    \* the value lastUs was initialised with
  tk,         \* the locals of the last tick of loop()
  seen1,      \* all filtered samples of channel 1 passed to updateCalibration
  seen2,      \* the same for channel 2
  fires,      \* number of times updateCalibration set calibrated
  nAdv,       \* number of clock advances between calls
  line,       \* the last line written to Serial
  since,      \* clock steps since the micros() read of the last tick, at most
              \* IntervalSteps
  pr,         \* two runs of the channel filters, side by side
  dv,         \* a pair of leads and the record a lead derivation made of it
  sq,         \* the statics, clock and output of the square-wave sketch
  app         \* the visualizer: React state, refs, pending async calls and timers

fw == <<clk, lastInit, lastUs, st, cal, rec, nEmit, ticks, lastUs0, tk,
        seen1, seen2, fires, nAdv, line, since>>
vars == <<clk, lastInit, lastUs, st, cal, rec, nEmit, ticks, lastUs0, tk,
          seen1, seen2, fires, nAdv, line, since, pr, dv, sq, app>>

PairIdle == [stA |-> initFilter, stB |-> initFilter, fA |-> <<0, 0>>, fB |-> <<0, 0>>,
             same1 |-> TRUE, same2 |-> TRUE, n |-> 0]
DeriveIdle == [lead1 |-> 0, lead2 |-> 0, by |-> "none", out |-> NoRecord]
\* the square-wave sketch before power-up
SqIdle == [clk |-> 0, lastInit |-> FALSE, lastMicros |-> 0, lastMicros0 |-> 0,
           count |-> 0, nEmit |-> 0, out |-> NoRecord]

\* --------------------------------------------- the visualizer: serial lines
\* the keys of a record, in the order the visualizer stores the leads
Keys == <<"lead1", "lead2", "lead3", "avr", "avl", "avf">>
\* A serial line is a sequence of tokens, a token being a number (scaled by
\* FX) or a lower-case word; obj says that JSON.parse(line) gives an object,
\* whose members are then the (word, number) pairs of the line.
Num(v) == [isNum |-> TRUE, w |-> "", v |-> v]
Word(w) == [isNum |-> FALSE, w |-> w, v |-> 0]
TextLine(toks) == [obj |-> FALSE, toks |-> toks]
JsonLine(ks, vs) ==
  [obj |-> TRUE,
   toks |-> [i \in 1 .. 2 * Len(ks) |->
               IF i % 2 = 1 THEN Word(ks[(i + 1) \div 2]) ELSE Num(vs[i \div 2])]]
CsvLine(vs) == TextLine([i \in 1 .. Len(vs) |-> Num(vs[i])])

\* the values of one record: the leads derived from lead1 = 1, lead2 = 2
SixValues == <<1 * FX, 2 * FX, 1 * FX, -3, 0, 3>>
Reversed(q) == [i \in 1 .. Len(q) |-> q[Len(q) + 1 - i]]
\* the lines the serial port delivers in the model
DataLines ==
  {JsonLine(Keys, SixValues),
   JsonLine(Reversed(Keys), Reversed(SixValues)),
   JsonLine(SubSeq(Keys, 1, 3), SubSeq(SixValues, 1, 3)),
   JsonLine(SubSeq(Keys, 4, 6), SubSeq(SixValues, 4, 6)),
   JsonLine(SubSeq(Keys, 4, 5), SubSeq(SixValues, 4, 5)),
   JsonLine(SubSeq(Keys, 1, 1), SubSeq(SixValues, 1, 1)),
   CsvLine(SixValues),
   CsvLine(SixValues \o <<7 * FX>>),
   CsvLine(SubSeq(SixValues, 1, 3)),
   CsvLine(SubSeq(SixValues, 1, 1)),
   TextLine(<<Word("ready")>>),
   TextLine(<<>>)}
  \cup {CsvLine(<<l1, l2>>) : l1 \in LeadValues, l2 \in LeadValues}
LogLines ==
  {TextLine(<<Word("calibration"), Word("complete")>>),
   TextLine(<<Word("starting"), Word("calibration")>>)}
Lines == DataLines \cup LogLines
\* the lines of the connection model: a record, and the two calibration logs
AppLines == {JsonLine(Keys, SixValues)} \cup LogLines

\* lower.includes('calibration complete') || includes('calibrated') ||
\* includes('calibration done')
calDone(l) ==
  \E i \in 1 .. Len(l.toks) :
     \/ l.toks[i].w = "calibrated"
     \/ /\ l.toks[i].w = "calibration"
        /\ i < Len(l.toks)
        /\ l.toks[i + 1].w \in {"complete", "done"}
\* lower.includes('starting') && lower.includes('calibration')
calStart(l) ==
  /\ \E i \in 1 .. Len(l.toks) : l.toks[i].w = "starting"
  /\ \E i \in 1 .. Len(l.toks) : l.toks[i].w = "calibration"

\* what /-?\d+(?:\.\d+)?/g finds inside a word
digitsIn(w) ==
  CASE w = "lead1" -> <<1 * FX>>
    [] w = "lead2" -> <<2 * FX>>
    [] w = "lead3" -> <<3 * FX>>
    [] OTHER -> <<>>
\* line.match(/-?\d+(?:\.\d+)?/g).map(parseFloat): every number of the line in
\* order, the digits inside words included
RECURSIVE matchNums(_)
matchNums(toks) ==
  IF toks = <<>> THEN <<>>
  ELSE (IF Head(toks).isNum THEN <<Head(toks).v>> ELSE digitsIn(Head(toks).w))
       \o matchNums(Tail(toks))

\* k in parsedJson
hasKey(l, k) == \E i \in 1 .. Len(l.toks) : ~l.toks[i].isNum /\ l.toks[i].w = k
\* parseFloat(parsedJson[k])
jsonValue(l, k) ==
  l.toks[(CHOOSE i \in 1 .. Len(l.toks) : ~l.toks[i].isNum /\ l.toks[i].w = k) + 1].v

\* aVL computed from la twice
appDerive_avl(lead1, lead2) ==
  LET lead3 == lead2 - lead1
      ra == 0
      la == lead1
      ll == lead2
      avr == ra - Half(la + ll)
      avl == la - Half(ra + la)
      avf == ll - Half(ra + la)
  IN  <<lead1, lead2, lead3, avr, avl, avf>>
\* the six leads built from a two-value line
appDerive(lead1, lead2) ==
  LET lead3 == lead2 - lead1
      ra == 0
      la == lead1
      ll == lead2
      avr == ra - Half(la + ll)
      avl == la - Half(ra + ll)
      avf == ll - Half(ra + la)
  IN  <<lead1, lead2, lead3, avr, avl, avf>>

\* arr of the read loop: the six values of a line, <<>> standing for null
parseLine(l) ==
  IF l.obj /\ \A j \in 1 .. Len(Keys) : hasKey(l, Keys[j])
  THEN [j \in 1 .. Len(Keys) |-> jsonValue(l, Keys[j])]
  ELSE LET nums == matchNums(l.toks)
       IN  IF Len(nums) >= 6 THEN SubSeq(nums, 1, 6)
           ELSE IF Len(nums) = 2 THEN appDerive(nums[1], nums[2])
           ELSE <<>>

valueToMv(v, inputUnits) ==
  IF inputUnits = "adc" THEN RoundQ(v * VREF_MV, ADC_MAX) ELSE v

\* Math.max(1, Math.floor(sampleRate * secondsWindow))
bufferSamples(sampleRate, secondsWindow) ==
  IF sampleRate * secondsWindow < 1 THEN 1 ELSE sampleRate * secondsWindow

\* bufferRef.current = leads.map(()=>new Float32Array(samples)): one array
\* for each lead, its length and the slots written so far
newBuffers(samples) == [j \in 1 .. Len(Keys) |-> [len |-> samples, data |-> {}]]

\* ------------------------------------------------ the visualizer: its state
\* one call of connect(): where it is, and what its closure holds
ConnIdle ==
  [pc |-> "idle", isCalibrating |-> FALSE, isRecording |-> FALSE,
   recordedData |-> 0, sampleRate |-> 0, secondsWindow |-> 0,
   inputUnits |-> "mv", calibTimeout |-> FALSE, cancelled |-> FALSE]
\* the component after mounting.  recordedData is a position in heap, 0
\* standing for null; the six arrays of a recording grow together and are
\* kept as one sequence of rows.  buffer[j] is the array of lead j.
AppMounted ==
  [connected |-> FALSE, isCalibrating |-> FALSE, isRecording |-> FALSE,
   showReport |-> FALSE, recordingProgress |-> 0, recordedData |-> 0,
   heap |-> <<>>,
   sampleRate |-> DEFAULT_SAMPLE_RATE, secondsWindow |-> DEFAULT_SECONDS,
   inputUnits |-> "mv",
   portRef |-> 0, readerRef |-> 0, runningRef |-> FALSE,
   buffer |-> newBuffers(bufferSamples(DEFAULT_SAMPLE_RATE, DEFAULT_SECONDS)),
   writeIndex |-> 0,
   conns |-> [i \in 1 .. MaxConnects |-> ConnIdle],
   nConn |-> 0, disc |-> "none", timer |-> "none",
   ev |-> "mount", nLines |-> 0, lineIn |-> TextLine(<<>>), arr |-> <<>>]

\* the state at the end of setup(), with the filter table given
InitFwWith(table) ==
  /\ clk \in StartClk
  /\ lastInit = FALSE
  /\ lastUs = 0
  /\ st = table
  /\ cal = calibInit(millis(clk))
  /\ rec = NoRecord
  /\ nEmit = 0
  /\ ticks = 0
  /\ lastUs0 = 0
  /\ tk = NoTick
  /\ seen1 = {}
  /\ seen2 = {}
  /\ fires = 0
  /\ nAdv = 0
  /\ line = <<>>
  /\ since = 0

InitFw == InitFwWith(initFilter)

Init == InitFw /\ pr = PairIdle /\ dv = DeriveIdle /\ sq = SqIdle /\ app = AppMounted

sat(d) == IF d > IntervalSteps THEN IntervalSteps ELSE d
invert(flag, raw) == IF flag THEN -raw ELSE raw
\* the two timestamps compared without the modular difference
due_noWrap(now, last) == ~(now < last + IntervalSteps)
\* due half an interval early
due_half(now, last) == ~(SubU32(now, last) < IntervalSteps \div 2)
due(now, last) == ~(SubU32(now, last) < IntervalSteps)
\* missed deadlines skipped: lastUs moved to the last deadline that has passed
nextDeadline_skip(last, now) ==
  AddU32(last, (SubU32(now, last) \div IntervalSteps) * IntervalSteps)
\* lastUs = now
nextDeadline_reset(last, now) == now
\* lastUs += intervalUs
nextDeadline(last, now) == AddU32(last, IntervalSteps)

\* baseline removal and gain applied before the calibration update
tickResult_applyFirst(stv, c0, a1, a2, ms) ==
  LET raw1 == invert(INVERT_CH1, a1 * FX)
      raw2 == invert(INVERT_CH2, a2 * FX)
      r == filterBoth(stv, raw1, raw2)
      f1 == r.f1
      f2 == r.f2
      s1 == apply(c0.calibrated, f1, c0.baseline1, c0.gain1)
      s2 == apply(c0.calibrated, f2, c0.baseline2, c0.gain2)
      c == updateCalibration(c0, f1, f2, ms)
  IN  [st |-> r.st, cal |-> c, rec |-> emitJson(toMv(s1), toMv(s2)),
       tk |-> [raw1 |-> raw1, raw2 |-> raw2, f1 |-> f1, f2 |-> f2,
               s1 |-> s1, s2 |-> s2,
               elapsedMs |-> ms - c0.calibStartMs,
               wasCal |-> c0.calibrated,
               fired |-> c.calibrated /\ ~c0.calibrated,
               steps |-> <<"read1", "read2", "filter1", "filter2",
                           "apply", "calibrate", "derive", "emit">>]]
\* the body of loop() after the deadline test, lines 123-145
tickResult(stv, c0, a1, a2, ms) ==
  LET raw1 == invert(INVERT_CH1, a1 * FX)
      raw2 == invert(INVERT_CH2, a2 * FX)
      r == filterBoth(stv, raw1, raw2)
      f1 == r.f1
      f2 == r.f2
      c == updateCalibration(c0, f1, f2, ms)
      s1 == apply(c.calibrated, f1, c.baseline1, c.gain1)
      s2 == apply(c.calibrated, f2, c.baseline2, c.gain2)
  IN  [st |-> r.st, cal |-> c, rec |-> emitJson(toMv(s1), toMv(s2)),
       tk |-> [raw1 |-> raw1, raw2 |-> raw2, f1 |-> f1, f2 |-> f2,
               s1 |-> s1, s2 |-> s2,
               elapsedMs |-> ms - c0.calibStartMs,
               wasCal |-> c0.calibrated,
               fired |-> c.calibrated /\ ~c0.calibrated,
               steps |-> <<"read1", "read2", "filter1", "filter2",
                           "calibrate", "apply", "derive", "emit">>]]

\* first call of loop(): the static is initialised with micros(), and the
\* deadline test right after it fails
LoopFirst ==
  /\ ~lastInit
  /\ lastInit' = TRUE
  /\ lastUs' = micros(clk)
  /\ lastUs0' = micros(clk)
  /\ UNCHANGED <<clk, st, cal, rec, nEmit, ticks, tk, seen1, seen2, fires, nAdv, line, since, pr, dv, sq, app>>

\* loop() called before the deadline: early return
LoopWait ==
  /\ lastInit
  /\ ~due(micros(clk), lastUs)
  /\ UNCHANGED vars

\* loop() called at or after the deadline: one tick, the two analogRead
\* values drawn from R1 and R2
tickWith(R1, R2) ==
  /\ lastInit
  /\ due(micros(clk), lastUs)
  /\ ticks < MaxTicks
  /\ \E a1 \in R1, a2 \in R2, p \in ProcSteps :
     \E r \in {tickResult(st, cal, a1, a2, millis(clk + p))} :
           /\ lastUs' = nextDeadline(lastUs, micros(clk))
           /\ st' = r.st
           /\ cal' = r.cal
           /\ rec' = r.rec
           /\ line' = printJson(r.rec)
           /\ nEmit' = nEmit + 1
           /\ ticks' = ticks + 1
           /\ clk' = clk + p
           /\ seen1' = seen1 \cup {r.tk.f1}
           /\ seen2' = seen2 \cup {r.tk.f2}
           /\ fires' = IF r.tk.fired THEN fires + 1 ELSE fires
           /\ tk' = r.tk
           /\ since' = sat(p)
           /\ UNCHANGED <<lastInit, lastUs0, nAdv, pr, dv, sq, app>>

LoopTick == tickWith(RawValues, RawValues)

loop == LoopFirst \/ LoopWait \/ LoopTick

\* time passes between two calls of loop()
Advance ==
  /\ nAdv < MaxAdvance
  /\ \E d \in TimeSteps : clk' = clk + d /\ since' = sat(since + d)
  /\ nAdv' = nAdv + 1
  /\ UNCHANGED <<lastInit, lastUs, st, cal, rec, nEmit, ticks, lastUs0, tk,
                 seen1, seen2, fires, line, pr, dv, sq, app>>

Next == LoopFirst \/ LoopWait \/ LoopTick \/ Advance

Spec == Init /\ [][Next]_vars

\* ------------------------------------------- end-to-end, constant input
\* the sketch with a pass-through cascade, channel 1 held at 100 and
\* channel 2 at 150
InitConst == InitFwWith(passThroughFilter) /\ pr = PairIdle /\ dv = DeriveIdle /\ sq = SqIdle /\ app = AppMounted

LoopTickConst == tickWith({ConstInput[1]}, {ConstInput[2]})

NextConst == LoopFirst \/ LoopWait \/ LoopTickConst \/ Advance

SpecConst == InitConst /\ [][NextConst]_vars

\* ---------------------------------------- end-to-end, alternating input
\* the sketch with a pass-through cascade, channel 1 alternating between
\* -1 and +1 from tick to tick, channel 2 at 0
InitAlt == InitFwWith(passThroughFilter) /\ pr = PairIdle /\ dv = DeriveIdle /\ sq = SqIdle /\ app = AppMounted

LoopTickAlt ==
  tickWith(IF ticks = 0 THEN AltInput ELSE {-(tk.raw1 \div FX)}, {0})

NextAlt == LoopFirst \/ LoopWait \/ LoopTickAlt \/ Advance

SpecAlt == InitAlt /\ [][NextAlt]_vars

\* ------------------------------------------- two filter runs side by side
\* Run A and run B each execute lines 130-131 once per tick, on raw samples
\* chosen independently; same1/same2 record whether the two runs have fed
\* the same samples to channel 1 / channel 2 so far.
InitPair ==
  /\ clk = 0 /\ lastInit = FALSE /\ lastUs = 0 /\ st = initFilter
  /\ cal = calibInit(0) /\ rec = NoRecord /\ nEmit = 0 /\ ticks = 0
  /\ lastUs0 = 0 /\ tk = NoTick /\ seen1 = {} /\ seen2 = {} /\ fires = 0
  /\ nAdv = 0
  /\ line = <<>>
  /\ since = 0
  /\ pr = PairIdle
  /\ dv = DeriveIdle
  /\ sq = SqIdle
  /\ app = AppMounted

PairTick ==
  /\ pr.n < MaxPairTicks
  /\ \E a1 \in RawValues, a2 \in RawValues, b1 \in RawValues, b2 \in RawValues :
     \E ra \in {filterBoth(pr.stA, invert(INVERT_CH1, a1 * FX), invert(INVERT_CH2, a2 * FX))},
        rb \in {filterBoth(pr.stB, invert(INVERT_CH1, b1 * FX), invert(INVERT_CH2, b2 * FX))} :
       pr' = [stA |-> ra.st, stB |-> rb.st,
              fA |-> <<ra.f1, ra.f2>>, fB |-> <<rb.f1, rb.f2>>,
              same1 |-> pr.same1 /\ a1 = b1,
              same2 |-> pr.same2 /\ a2 = b2,
              n |-> pr.n + 1]
  /\ UNCHANGED <<fw, dv, sq, app>>

NextPair == PairTick

SpecPair == InitPair /\ [][NextPair]_vars

\* ------------------------------------------------- single filter calls
\* ECGFilter called for one channel at a time, on any sample; tk holds the
\* argument and the result of the call, tk.steps names the channel's call
InitFilter ==
  /\ clk = 0 /\ lastInit = FALSE /\ lastUs = 0 /\ st = initFilter
  /\ cal = calibInit(0) /\ rec = NoRecord /\ nEmit = 0 /\ ticks = 0
  /\ lastUs0 = 0 /\ tk = NoTick /\ seen1 = {} /\ seen2 = {} /\ fires = 0
  /\ nAdv = 0
  /\ line = <<>>
  /\ since = 0
  /\ pr = PairIdle
  /\ dv = DeriveIdle
  /\ sq = SqIdle
  /\ app = AppMounted

FilterCall ==
  /\ ticks < MaxCalls
  /\ \E ch \in Channels, a \in RawValues :
     \E r \in {ECGFilter(st, ch, a * FX)} :
        /\ st' = r.st
        /\ tk' = IF ch = 0
                 THEN [NoTick EXCEPT !.raw1 = a * FX, !.f1 = r.y,
                                     !.steps = <<"filter1">>]
                 ELSE [NoTick EXCEPT !.raw2 = a * FX, !.f2 = r.y,
                                     !.steps = <<"filter2">>]
        /\ ticks' = ticks + 1
  /\ UNCHANGED <<clk, lastInit, lastUs, cal, rec, nEmit, lastUs0, seen1, seen2,
                 fires, nAdv, line, since, pr, dv, sq, app>>

NextFilter == FilterCall

SpecFilter == InitFilter /\ [][NextFilter]_vars

\* ------------------------------------------------ lead derivations alone
InitDerive ==
  /\ clk = 0 /\ lastInit = FALSE /\ lastUs = 0 /\ st = initFilter
  /\ cal = calibInit(0) /\ rec = NoRecord /\ nEmit = 0 /\ ticks = 0
  /\ lastUs0 = 0 /\ tk = NoTick /\ seen1 = {} /\ seen2 = {} /\ fires = 0
  /\ nAdv = 0
  /\ line = <<>>
  /\ since = 0
  /\ pr = PairIdle
  /\ sq = SqIdle
  /\ app = AppMounted
  /\ \E l1 \in LeadValues, l2 \in LeadValues :
       dv = [lead1 |-> l1, lead2 |-> l2, by |-> "none", out |-> NoRecord]

\* the dual-input firmware derives and emits
DeriveDual ==
  /\ dv.by = "none"
  /\ dv' = [dv EXCEPT !.by = "dual", !.out = emitJson(dv.lead1, dv.lead2)]
  /\ UNCHANGED <<fw, pr, sq, app>>

\* the JSON sender in simulated mode derives and emits
DeriveSimulated ==
  /\ dv.by = "none"
  /\ dv' = [dv EXCEPT !.by = "simulated", !.out = senderSimulated(dv.lead1, dv.lead2)]
  /\ UNCHANGED <<fw, pr, sq, app>>

\* the JSON sender in analog mode derives and emits
DeriveAnalog ==
  /\ dv.by = "none"
  /\ dv' = [dv EXCEPT !.by = "analog", !.out = senderAnalog(dv.lead1, dv.lead2)]
  /\ UNCHANGED <<fw, pr, sq, app>>

NextDerive == DeriveDual \/ DeriveSimulated \/ DeriveAnalog

SpecDerive == InitDerive /\ [][NextDerive]_vars

\* ------------------------------------------------- the square-wave sketch
\* (uint32_t)(SAMPLE_RATE_HZ/4)
SqDivisor == SAMPLE_RATE_HZ \div 4
\* the level computed from the count before the increment
squareHigh_zeroBased(count) == (((count - 1) \div SqDivisor) % 2) = 0
\* high, from the count the tick has just incremented
squareHigh(count) == ((count \div SqDivisor) % 2) = 0
\* the record the sketch prints: lead2 with three decimals, the rest "0.000"
squareRecord(high) ==
  [NoRecord EXCEPT !.lead2 = IF high THEN 1 * FX ELSE 0]

InitSquare ==
  /\ clk = 0 /\ lastInit = FALSE /\ lastUs = 0 /\ st = initFilter
  /\ cal = calibInit(0) /\ rec = NoRecord /\ nEmit = 0 /\ ticks = 0
  /\ lastUs0 = 0 /\ tk = NoTick /\ seen1 = {} /\ seen2 = {} /\ fires = 0
  /\ nAdv = 0
  /\ line = <<>>
  /\ since = 0
  /\ pr = PairIdle
  /\ dv = DeriveIdle
  /\ app = AppMounted
  /\ \E c \in StartClk : sq = [SqIdle EXCEPT !.clk = c]

\* first call of loop(): the static lastMicros is initialised from micros(),
\* and the deadline test that follows fails
SqFirst ==
  /\ ~sq.lastInit
  /\ sq' = [sq EXCEPT !.lastInit = TRUE, !.lastMicros = micros(sq.clk),
                       !.lastMicros0 = micros(sq.clk)]
  /\ UNCHANGED <<fw, pr, dv, app>>

\* a call before the deadline returns at once
SqWait ==
  /\ sq.lastInit
  /\ ~due(micros(sq.clk), sq.lastMicros)
  /\ UNCHANGED vars

\* a call at or after the deadline: one count, one record
SqTick ==
  /\ sq.lastInit
  /\ due(micros(sq.clk), sq.lastMicros)
  /\ sq.count < MaxSqTicks
  /\ sq' = [sq EXCEPT !.lastMicros = nextDeadline(sq.lastMicros, micros(sq.clk)),
                       !.count = sq.count + 1,
                       !.nEmit = sq.nEmit + 1,
                       !.out = squareRecord(squareHigh(sq.count + 1))]
  /\ UNCHANGED <<fw, pr, dv, app>>

\* time passes between two calls (the time before the first call is in
\* StartClk), up to two intervals behind the deadline
SqAdvance ==
  /\ sq.lastInit
  /\ SubU32(micros(sq.clk), sq.lastMicros) < 2 * IntervalSteps
  /\ sq.count < MaxSqTicks
  /\ \E d \in {IntervalSteps \div 2, IntervalSteps} :
        sq' = [sq EXCEPT !.clk = sq.clk + d]
  /\ UNCHANGED <<fw, pr, dv, app>>

NextSquare == SqFirst \/ SqWait \/ SqTick \/ SqAdvance

SpecSquare == InitSquare /\ [][NextSquare]_vars

\* ------------------------------------------- the three sources together
\* a record of the dual-input sketch or of the JSON sender, and the records
\* of the square-wave sketch
InitVariants ==
  /\ clk = 0 /\ lastInit = FALSE /\ lastUs = 0 /\ st = initFilter
  /\ cal = calibInit(0) /\ rec = NoRecord /\ nEmit = 0 /\ ticks = 0
  /\ lastUs0 = 0 /\ tk = NoTick /\ seen1 = {} /\ seen2 = {} /\ fires = 0
  /\ nAdv = 0
  /\ line = <<>>
  /\ since = 0
  /\ pr = PairIdle
  /\ app = AppMounted
  /\ \E l1 \in LeadValues, l2 \in LeadValues :
       dv = [lead1 |-> l1, lead2 |-> l2, by |-> "none", out |-> NoRecord]
  /\ \E c \in StartClk : sq = [SqIdle EXCEPT !.clk = c]

NextVariants == NextDerive \/ NextSquare

SpecVariants == InitVariants /\ [][NextVariants]_vars

\* ------------------------------------------- the visualizer: its handlers
AllIdle ==
  /\ clk = 0 /\ lastInit = FALSE /\ lastUs = 0 /\ st = initFilter
  /\ cal = calibInit(0) /\ rec = NoRecord /\ nEmit = 0 /\ ticks = 0
  /\ lastUs0 = 0 /\ tk = NoTick /\ seen1 = {} /\ seen2 = {} /\ fires = 0
  /\ nAdv = 0
  /\ line = <<>>
  /\ since = 0
  /\ pr = PairIdle
  /\ dv = DeriveIdle
  /\ sq = SqIdle

\* the dependencies and the condition of the auto-start effect
autoDeps(a) == <<a.connected, a.isCalibrating, a.isRecording, a.showReport>>
autoCond(a) == a.connected /\ ~a.isCalibrating /\ ~a.isRecording /\ ~a.showReport
\* the render that follows a handler: when a dependency has changed the
\* effect's cleanup clears its timer, and the effect sets a new one if its
\* condition holds
render(a0, a1) ==
  [a1 EXCEPT !.timer = IF autoDeps(a0) = autoDeps(a1) THEN a1.timer
                       ELSE IF autoCond(a1) THEN "armed" ELSE "none"]

\* startRecording(), connected being the value its closure holds
startRecording(a, connected) ==
  IF a.portRef = 0 \/ ~connected
  THEN a
  ELSE [a EXCEPT !.heap = Append(a.heap, <<>>),
                 !.recordedData = Len(a.heap) + 1,
                 !.recordingProgress = 0,
                 !.isRecording = TRUE,
                 !.showReport = FALSE]

\* connect() up to its first await: the closure is made
connectClick(a) ==
  [a EXCEPT !.nConn = a.nConn + 1,
            !.conns[a.nConn + 1] =
               [ConnIdle EXCEPT !.pc = "opening",
                                !.isCalibrating = a.isCalibrating,
                                !.isRecording = a.isRecording,
                                !.recordedData = a.recordedData,
                                !.sampleRate = a.sampleRate,
                                !.secondsWindow = a.secondsWindow,
                                !.inputUnits = a.inputUnits],
            !.ev = "connect"]

\* connect() from the opened port to the first reader.read()
connectOpened(a, i) ==
  [a EXCEPT !.portRef = i,
            !.connected = TRUE,
            !.readerRef = i,
            !.runningRef = TRUE,
            !.isCalibrating = TRUE,
            !.conns[i].calibTimeout = TRUE,
            !.conns[i].pc = "reading",
            !.ev = "opened"]

\* the catch of connect()
connectCatch(a, i) ==
  [a EXCEPT !.connected = FALSE, !.conns[i].pc = "ended"]

\* the recording step of the read loop, for a sample arr
recordSample(a, c, arr) ==
  LET rows == Append(a.heap[c.recordedData],
                     [j \in 1 .. Len(arr) |-> valueToMv(arr[j], c.inputUnits)])
      full == Len(rows) >= CAPTURE_SECONDS * c.sampleRate
  IN  [a EXCEPT !.heap[c.recordedData] = rows,
                !.recordingProgress =
                   IF full THEN CAPTURE_SECONDS * c.sampleRate ELSE Len(rows),
                !.isRecording = IF full THEN FALSE ELSE a.isRecording,
                !.showReport = IF full THEN TRUE ELSE a.showReport]

\* the write index advanced by two
writeSample_skip(a, c, arr) ==
  LET samples == IF a.buffer[1].len # 0 THEN a.buffer[1].len
                 ELSE bufferSamples(c.sampleRate, c.secondsWindow)
      mvs == [j \in 1 .. Len(arr) |-> valueToMv(arr[j], c.inputUnits)]
  IN  [a EXCEPT !.buffer =
                   [j \in 1 .. Len(a.buffer) |->
                      IF j <= Len(arr) /\ a.writeIndex < a.buffer[j].len
                      THEN [a.buffer[j] EXCEPT !.data =
                              {p \in a.buffer[j].data : p[1] # a.writeIndex}
                                \cup {<<a.writeIndex, mvs[j]>>}]
                      ELSE a.buffer[j]],
                !.writeIndex = (a.writeIndex + 2) % samples]
\* the write of a sample into the ring buffers: bufferRef.current[i] exists
\* for every lead once the component has mounted, and a store past the end
\* of a Float32Array is dropped
writeSample(a, c, arr) ==
  LET samples == IF a.buffer[1].len # 0 THEN a.buffer[1].len
                 ELSE bufferSamples(c.sampleRate, c.secondsWindow)
      mvs == [j \in 1 .. Len(arr) |-> valueToMv(arr[j], c.inputUnits)]
  IN  [a EXCEPT !.buffer =
                   [j \in 1 .. Len(a.buffer) |->
                      IF j <= Len(arr) /\ a.writeIndex < a.buffer[j].len
                      THEN [a.buffer[j] EXCEPT !.data =
                              {p \in a.buffer[j].data : p[1] # a.writeIndex}
                                \cup {<<a.writeIndex, mvs[j]>>}]
                      ELSE a.buffer[j]],
                !.writeIndex = (a.writeIndex + 1) % samples]

\* the body of the read loop for one line, in the connect() call i
readLine(a, i, l) ==
  LET c == a.conns[i]
      arr == parseLine(l)
      a0 == [a EXCEPT !.nLines = a.nLines + 1, !.lineIn = l, !.arr = <<>>,
                      !.ev = "line",
                      !.conns[i].pc = IF a.runningRef THEN "reading" ELSE "ended"]
  IN  IF l.toks = <<>> THEN a0
      ELSE IF calDone(l)
      THEN [a0 EXCEPT !.isCalibrating = FALSE, !.conns[i].calibTimeout = FALSE]
      ELSE IF calStart(l) THEN [a0 EXCEPT !.isCalibrating = TRUE]
      ELSE IF arr = <<>> THEN a0
      ELSE IF c.isCalibrating THEN [a0 EXCEPT !.arr = arr]
      ELSE IF c.isRecording /\ c.recordedData = 0
      THEN connectCatch([a0 EXCEPT !.arr = arr], i)
      ELSE IF c.isRecording
      THEN writeSample(recordSample([a0 EXCEPT !.arr = arr], c, arr), c, arr)
      ELSE writeSample([a0 EXCEPT !.arr = arr], c, arr)

\* disconnect() up to its first await
disconnectClick(a) ==
  LET a0 == [a EXCEPT !.runningRef = FALSE, !.connected = FALSE,
                      !.isRecording = FALSE, !.ev = "disconnect"]
  IN  IF a.readerRef # 0
      THEN [a0 EXCEPT !.conns[a.readerRef].cancelled = TRUE, !.disc = "cancel"]
      ELSE IF a.portRef # 0 THEN [a0 EXCEPT !.disc = "close"]
      ELSE a0

InitApp == AllIdle /\ app = AppMounted

Handled(a1) == app' = render(app, a1) /\ UNCHANGED <<fw, pr, dv, sq>>

\* the Connect button, shown while connected is false
ConnectClick ==
  /\ ~app.connected
  /\ app.nConn < MaxConnects
  /\ Handled(connectClick(app))

\* requestPort() and open() have resolved
ConnectOpened ==
  \E i \in 1 .. MaxConnects :
     /\ app.conns[i].pc = "opening"
     /\ Handled(connectOpened(app, i))

\* requestPort() or open() has rejected
ConnectFailed ==
  \E i \in 1 .. MaxConnects :
     /\ app.conns[i].pc = "opening"
     /\ Handled([connectCatch(app, i) EXCEPT !.ev = "failed"])

\* the 5000 ms fallback timer of a connect() call
CalibTimeout ==
  \E i \in 1 .. MaxConnects :
     /\ app.conns[i].calibTimeout
     /\ Handled([app EXCEPT !.isCalibrating = FALSE,
                            !.conns[i].calibTimeout = FALSE,
                            !.ev = "calibTimeout"])

ReadLineFrom(L) ==
  \E i \in 1 .. MaxConnects, l \in L :
     /\ app.conns[i].pc = "reading"
     /\ ~app.conns[i].cancelled
     /\ app.nLines < MaxLines
     /\ Handled(readLine(app, i, l))

\* reader.read() resolves with a line
ReadLine == ReadLineFrom(AppLines)

\* reader.read() resolves with done after the reader was cancelled
ReadDone ==
  \E i \in 1 .. MaxConnects :
     /\ app.conns[i].pc = "reading"
     /\ app.conns[i].cancelled
     /\ Handled([app EXCEPT !.conns[i].pc = "ended", !.ev = "done"])

\* reader.read() rejects (the device is lost)
ReadError ==
  \E i \in 1 .. MaxConnects :
     /\ app.conns[i].pc = "reading"
     /\ ~app.conns[i].cancelled
     /\ Handled([connectCatch(app, i) EXCEPT !.ev = "readError"])

\* the Disconnect button, shown while connected is true; one disconnect()
\* call is pending at a time
DisconnectClick ==
  /\ app.connected
  /\ app.disc = "none"
  /\ Handled(disconnectClick(app))

\* disconnect(): reader.cancel() has resolved
DisconnectCancelled ==
  /\ app.disc = "cancel"
  /\ Handled([app EXCEPT !.readerRef = 0,
                         !.disc = IF app.portRef # 0 THEN "close" ELSE "none",
                         !.ev = "cancelled"])

\* disconnect(): port.close() has resolved
DisconnectClosed ==
  /\ app.disc = "close"
  /\ Handled([app EXCEPT !.portRef = 0, !.disc = "none", !.ev = "closed"])

\* disconnect(): reader.cancel() or port.close() has rejected
DisconnectThrew ==
  /\ app.disc \in {"cancel", "close"}
  /\ Handled([app EXCEPT !.disc = "none", !.ev = "threw"])

\* the 500 ms timer of the auto-start effect; it was set in a render in which
\* connected was true
AutoStart ==
  /\ app.timer = "armed"
  /\ Handled([startRecording([app EXCEPT !.timer = "none"], TRUE)
                EXCEPT !.ev = "autoStart"])

NextApp ==
  \/ ConnectClick \/ ConnectOpened \/ ConnectFailed \/ CalibTimeout
  \/ ReadLine \/ ReadDone \/ ReadError
  \/ DisconnectClick \/ DisconnectCancelled \/ DisconnectClosed \/ DisconnectThrew
  \/ AutoStart

SpecApp == InitApp /\ [][NextApp]_vars

\* --------------------------------------- the visualizer: the ring buffers
\* what parseInt(e.target.value) gives for the text of a number input, 0
\* standing for every text it gives 0 or NaN for
InputInts == {-1, 0, 1, 2}
\* the buffer effect: when secondsWindow or sampleRate has changed in the
\* render, the six arrays are made anew and the write index is reset
bufferEffect(a0, a1) ==
  IF <<a0.secondsWindow, a0.sampleRate>> = <<a1.secondsWindow, a1.sampleRate>>
  THEN a1
  ELSE [a1 EXCEPT !.buffer = newBuffers(bufferSamples(a1.sampleRate, a1.secondsWindow)),
                  !.writeIndex = 0]

\* onChange of the window input: setSecondsWindow(parseInt(value) || 1)
SetSecondsWindow ==
  \E v \in InputInts :
     Handled(bufferEffect(app, [app EXCEPT !.secondsWindow = IF v = 0 THEN 1 ELSE v,
                                           !.ev = "window"]))

\* onChange of the sample rate input:
\* setSampleRate(Math.max(1, parseInt(value) || DEFAULT_SAMPLE_RATE))
SetSampleRate ==
  \E v \in InputInts :
     Handled(bufferEffect(app, [app EXCEPT !.sampleRate =
                                              Max2(1, IF v = 0 THEN DEFAULT_SAMPLE_RATE ELSE v),
                                           !.ev = "rate"]))

\* ------------------------------------------ the visualizer: the read loop
\* the first connection, opened, reading lines of every kind
InitParse == AllIdle /\ app = render(AppMounted, connectOpened(connectClick(AppMounted), 1))

ParseLine == ReadLineFrom(Lines)

NextParse == ParseLine \/ CalibTimeout

SpecParse == InitParse /\ [][NextParse]_vars

\* the first connection, opened, reading records and calibration logs while
\* the settings are changed
NextBuffer == ReadLine \/ CalibTimeout \/ SetSecondsWindow \/ SetSampleRate

SpecBuffer == InitParse /\ [][NextBuffer]_vars

\* ================================================================ claims
SetMin(S) == CHOOSE x \in S : \A y \in S : x <= y
SetMax(S) == CHOOSE x \in S : \A y \in S : x >= y

\* C1: `calibrated` starts false, and once it is true it is true in every
\* later state of the run.
C1_OneShot == (cal.calibrated = FALSE) /\ [][cal.calibrated => cal'.calibrated]_vars
\* a tick was processed with the flag already set, and the flag is still set
C1_Witness == ticks > 0 /\ tk.wasCal /\ cal.calibrated

\* C2: on every tick whose elapsed time (millis() - calibStartMs) is below
\* CALIBRATION_TIME_MS the calibration step passes the filtered samples on
\* unchanged: s1 = f1 and s2 = f2.
C2_IdentityBeforeDeadline ==
  (ticks > 0 /\ tk.elapsedMs < CALIBRATION_TIME_MS) => (tk.s1 = tk.f1 /\ tk.s2 = tk.f2)
C2_Witness ==
  ticks > 0 /\ tk.elapsedMs < CALIBRATION_TIME_MS /\ tk.f1 # 0 /\ tk.s1 = tk.f1

\* C3: the transition fires on the first tick whose elapsed time is at least
\* CALIBRATION_TIME_MS and on no tick with a smaller one; until it fires
\* baseline and gain of both channels have their start-up values, so both
\* channels are set in the same tick; it fires exactly once per run.
C3_Transition ==
  /\ (ticks > 0 /\ tk.fired) => tk.elapsedMs >= CALIBRATION_TIME_MS
  /\ (ticks > 0 /\ tk.elapsedMs >= CALIBRATION_TIME_MS /\ ~tk.wasCal) => tk.fired
  /\ (ticks > 0 /\ tk.elapsedMs >= CALIBRATION_TIME_MS) => cal.calibrated
  /\ ~cal.calibrated =>
        /\ cal.baseline1 = 0 /\ cal.baseline2 = 0
        /\ cal.gain1 = [num |-> 1 * FX, den |-> 1 * FX]
        /\ cal.gain2 = [num |-> 1 * FX, den |-> 1 * FX]
  /\ fires <= 1
  /\ cal.calibrated <=> (fires = 1)
\* the transition fired on a tick at exactly the deadline
C3_Witness ==
  ticks > 0 /\ tk.fired /\ tk.elapsedMs = CALIBRATION_TIME_MS /\ fires = 1

\* C4: on every tick processed with `calibrated` true after the calibration
\* update, the transition tick included, s1 = (f1 - baseline1) * gain1 and
\* s2 = (f2 - baseline2) * gain2.
C4_ApplyCalibrated ==
  (ticks > 0 /\ cal.calibrated) =>
     /\ tk.s1 = RoundQ((tk.f1 - cal.baseline1) * cal.gain1.num, cal.gain1.den)
     /\ tk.s2 = RoundQ((tk.f2 - cal.baseline2) * cal.gain2.num, cal.gain2.den)
\* the transition tick itself, with a gain other than 1 and a baseline other than 0
C4_Witness ==
  /\ ticks > 0 /\ tk.fired /\ tk.s1 # tk.f1
  /\ cal.baseline1 # 0 /\ cal.gain1.den # cal.gain1.num
  /\ cal.baseline1 # cal.baseline2

\* C5: at the transition, for each channel, baseline = (max + min) / 2 and
\* gain = REF_MV / max(floor, (max - min) / 2), min and max being the least
\* and greatest of all filtered samples of the channel seen so far.
C5_BaselineGain ==
  (ticks > 0 /\ tk.fired) =>
     /\ cal.min1_ = SetMin(seen1) /\ cal.max1_ = SetMax(seen1)
     /\ cal.min2_ = SetMin(seen2) /\ cal.max2_ = SetMax(seen2)
     /\ 2 * cal.baseline1 = SetMax(seen1) + SetMin(seen1)
     /\ 2 * cal.baseline2 = SetMax(seen2) + SetMin(seen2)
     /\ cal.gain1.num = REF_MV
     /\ cal.gain2.num = REF_MV
     /\ 2 * cal.gain1.den = Max2(2 * AMP_FLOOR, SetMax(seen1) - SetMin(seen1))
     /\ 2 * cal.gain2.den = Max2(2 * AMP_FLOOR, SetMax(seen2) - SetMin(seen2))
\* the transition after several distinct samples, amplitude above the floor
C5_Witness ==
  /\ ticks > 0 /\ tk.fired /\ Cardinality(seen1) >= 2
  /\ cal.gain1.den > AMP_FLOOR /\ cal.min1_ < tk.f1 /\ tk.f1 < cal.max1_

\* C6: gain1 and gain2 are always positive, finite and at most
\* REF_MV / floor; a channel whose min equals its max at the transition
\* gets the gain REF_MV / floor.
C6_GainBounded ==
  /\ \A g \in {cal.gain1, cal.gain2} :
        g.num > 0 /\ g.den > 0 /\ g.num * AMP_FLOOR <= REF_MV * g.den
  /\ (ticks > 0 /\ tk.fired /\ cal.min1_ = cal.max1_) =>
        cal.gain1.num * AMP_FLOOR = REF_MV * cal.gain1.den
  /\ (ticks > 0 /\ tk.fired /\ cal.min2_ = cal.max2_) =>
        cal.gain2.num * AMP_FLOOR = REF_MV * cal.gain2.den
\* a transition with channel 1 flat and channel 2 not
C6_Witness ==
  /\ ticks > 1 /\ tk.fired /\ cal.min1_ = cal.max1_ /\ cal.min2_ < cal.max2_
  /\ cal.gain1.num * AMP_FLOOR = REF_MV * cal.gain1.den

\* C7: whenever the transition has fired, both channels had a sample
\* observed: min <= max, and neither sentinel is left in min or max nor
\* has entered baseline or gain.
C7_NoSentinel ==
  cal.calibrated =>
     /\ seen1 # {} /\ seen2 # {}
     /\ cal.min1_ <= cal.max1_ /\ cal.min2_ <= cal.max2_
     /\ cal.min1_ < SENTINEL /\ cal.max1_ > -SENTINEL
     /\ cal.min2_ < SENTINEL /\ cal.max2_ > -SENTINEL
     /\ cal.min1_ <= cal.baseline1 /\ cal.baseline1 <= cal.max1_
     /\ cal.min2_ <= cal.baseline2 /\ cal.baseline2 <= cal.max2_
\* the deadline had passed before the first tick was processed
C7_Witness == ticks = 1 /\ tk.fired /\ nAdv > 0 /\ cal.calibrated

\* C8: two runs that have fed the same raw samples to channel 1 agree on
\* channel 1's stage states and filtered output whatever they fed to
\* channel 2, and the same with the channels exchanged; all stage states
\* start at zero.
C8_ChannelIndependence ==
  /\ pr.same1 => (pr.stA[0] = pr.stB[0] /\ pr.fA[1] = pr.fB[1])
  /\ pr.same2 => (pr.stA[1] = pr.stB[1] /\ pr.fA[2] = pr.fB[2])
  /\ pr.n = 0 => \A ch \in Channels, i \in Stages :
                    /\ pr.stA[ch][i].z1 = 0 /\ pr.stA[ch][i].z2 = 0
                    /\ pr.stB[ch][i].z1 = 0 /\ pr.stB[ch][i].z2 = 0
\* same channel 1, different channel 2, over two ticks
C8_Witness ==
  /\ pr.n >= 2 /\ pr.same1 /\ ~pr.same2
  /\ pr.stA[1] # pr.stB[1] /\ pr.fA[2] # pr.fB[2] /\ pr.fA[1] # 0

\* C9: every record a lead derivation emits for (lead1, lead2) has
\* lead3 = lead2 - lead1, aVR = -(lead1 + lead2)/2, aVL = lead1 - lead2/2,
\* aVF = lead2 - lead1/2, and aVR + aVL + aVF = 0.
C9_LeadIdentities ==
  dv.by # "none" =>
     /\ dv.out.lead1 = dv.lead1 /\ dv.out.lead2 = dv.lead2
     /\ dv.out.lead3 = dv.lead2 - dv.lead1
     /\ 2 * dv.out.avr = -(dv.lead1 + dv.lead2)
     /\ 2 * dv.out.avl = 2 * dv.lead1 - dv.lead2
     /\ 2 * dv.out.avf = 2 * dv.lead2 - dv.lead1
     /\ dv.out.avr + dv.out.avl + dv.out.avf = 0
C9_Witness ==
  dv.by = "dual" /\ dv.lead1 # dv.lead2 /\ dv.lead1 # 0 /\ dv.lead2 # 0 /\ dv.out.avf # 0

\* C10: after k ticks the stored timestamp is its initial value plus
\* k * intervalUs modulo the counter width, whatever the clock was at the
\* calls of loop().
C10_AccumulatingDeadline ==
  lastInit => lastUs = (lastUs0 + ticks * IntervalSteps) % WrapSteps
\* two ticks fired late, the second at a clock value past the wrap
C10_Witness ==
  /\ ticks >= 2 /\ clk > WrapSteps
  /\ SubU32(micros(clk), lastUs) > IntervalSteps

AllZero(r) ==
  r.lead1 = 0 /\ r.lead2 = 0 /\ r.lead3 = 0 /\ r.avr = 0 /\ r.avl = 0 /\ r.avf = 0

\* C11 as stated: a record is never emitted less than one interval of clock
\* time after the previous one.
C11_NoShortSpacing ==
  [][(ticks' = ticks + 1 /\ ticks >= 1) => since >= IntervalSteps]_vars
\* C11 as amended: every invocation that fires was due, moves the stored
\* deadline on by exactly one interval and emits exactly one record, so no
\* deadline is skipped or served twice; when it fires two or more intervals
\* late, loop() is due again as soon as it returns.
C11_OneTickPerDeadline ==
  [][(ticks' # ticks) =>
       /\ ticks' = ticks + 1
       /\ nEmit' = nEmit + 1
       /\ SubU32(micros(clk), lastUs) >= IntervalSteps
       /\ lastUs' = AddU32(lastUs, IntervalSteps)
       /\ (SubU32(micros(clk), lastUs) >= 2 * IntervalSteps =>
             SubU32(micros(clk'), lastUs') >= IntervalSteps)]_vars
\* two ticks with no clock advance between the two calls
C11_Witness == ticks >= 2 /\ nAdv = 1 /\ since < IntervalSteps

\* C12: whenever loop() is not due, the number of records emitted differs
\* from floor(elapsed / interval) by at most one, elapsed being the clock
\* time since the scheduler started.
C12_DriftBound ==
  (lastInit /\ SubU32(micros(clk), lastUs) < IntervalSteps) =>
     (nEmit - (SubU32(micros(clk), lastUs0) \div IntervalSteps)) \in -1 .. 1
\* caught up after ticks that fired late, the clock in mid-interval
C12_Witness ==
  /\ lastInit /\ nEmit >= 2 /\ nAdv >= 3
  /\ SubU32(micros(clk), lastUs) < IntervalSteps
  /\ SubU32(micros(clk), lastUs) >= IntervalSteps \div 2

\* C13: the number of records emitted equals the number of deadline
\* advances; a record has the six fields lead1, lead2, lead3, avr, avl, avf
\* in that order, lead1 and lead2 being the calibrated (or passed-through)
\* samples times MV_PER_UNIT.
C13_OneRecordPerTick ==
  /\ nEmit = ticks
  /\ ticks > 0 =>
        /\ Len(line) = 6
        /\ [i \in 1 .. 6 |-> line[i][1]] =
              <<"lead1", "lead2", "lead3", "avr", "avl", "avf">>
        /\ [i \in 1 .. 6 |-> line[i][2]] =
              <<rec.lead1, rec.lead2, rec.lead3, rec.avr, rec.avl, rec.avf>>
        /\ rec.lead1 = RoundQ(tk.s1 * MV_PER_UNIT, FX)
        /\ rec.lead2 = RoundQ(tk.s2 * MV_PER_UNIT, FX)
C13_Witness ==
  ticks >= 2 /\ nEmit = ticks /\ cal.calibrated /\ rec.lead1 # 0 /\ rec.avr # rec.avl

C15_ConstantInput ==
  cal.calibrated =>
     /\ cal.baseline1 = ConstInput[1] * FX
     /\ cal.baseline2 = ConstInput[2] * FX
     /\ cal.gain1.num * AMP_FLOOR = REF_MV * cal.gain1.den
     /\ cal.gain2.num * AMP_FLOOR = REF_MV * cal.gain2.den
     /\ AllZero(rec)
\* ticks through the window, the transition, and one further tick
C15_Witness ==
  ticks = 3 /\ tk.wasCal /\ ~tk.fired /\ tk.f1 = ConstInput[1] * FX /\ AllZero(rec)

\* C16: pass-through cascade, channel 1 alternating between -1 and +1: a
\* transition that has seen both values gives baseline1 = 0 and gain1 = 1,
\* and on every later tick the calibrated output of channel 1 equals its
\* filtered input.
C16_AlternatingInput ==
  /\ (ticks > 0 /\ tk.fired /\ seen1 = {-1 * FX, 1 * FX}) =>
        (cal.baseline1 = 0 /\ cal.gain1.num = cal.gain1.den)
  /\ (ticks > 0 /\ tk.wasCal /\ cal.baseline1 = 0) =>
        (cal.gain1.num = cal.gain1.den /\ tk.s1 = tk.f1)
C16_Witness ==
  /\ ticks = 3 /\ tk.wasCal /\ cal.baseline1 = 0 /\ seen1 = {-1 * FX, 1 * FX}
  /\ tk.s1 = tk.f1 /\ tk.f1 # 0

\* C20: a step taken while loop() is not due leaves the stored timestamp,
\* the filter states, the calibration state and the output as they are: no
\* channel is read and no record is emitted.
C20_NoWorkBeforeDeadline ==
  [][(lastInit /\ SubU32(micros(clk), lastUs) < IntervalSteps) =>
       UNCHANGED <<lastInit, lastUs, st, cal, rec, line, nEmit, ticks, tk,
                   seen1, seen2, fires>>]_vars
\* loop() can be called before the deadline, after earlier ticks
C20_Witness ==
  /\ lastInit /\ ticks >= 1 /\ cal.calibrated
  /\ SubU32(micros(clk), lastUs) > 0
  /\ SubU32(micros(clk), lastUs) < IntervalSteps

\* C19: the square-wave sketch emits one record per tick, one interval of
\* deadline per record; lead1, lead3, avr, avl, avf are 0 and lead2 is 0 or
\* 1 mV; lead2 is 1 exactly when (count / 31) is even, count being the
\* 1-based tick count: high for ticks 1..30, low for 31..61, high again
\* for 62..92.
C19_SquareWave ==
  /\ sq.nEmit = sq.count
  /\ sq.lastMicros = AddU32(sq.lastMicros0, sq.count * IntervalSteps)
  /\ sq.count > 0 =>
        /\ sq.out.lead1 = 0 /\ sq.out.lead3 = 0
        /\ sq.out.avr = 0 /\ sq.out.avl = 0 /\ sq.out.avf = 0
        /\ sq.out.lead2 \in {0, 1 * FX}
        /\ (sq.out.lead2 = 1 * FX) <=> ((sq.count \div 31) % 2 = 0)
        /\ (sq.out.lead2 = 1 * FX) <=>
              (sq.count \in 1 .. 30 \/ sq.count \in 62 .. 92)
\* the second high run has begun
C19_Witness == sq.count = 62 /\ sq.out.lead2 = 1 * FX /\ sq.nEmit = 62

\* the six values the firmware derives from (lead1, lead2), in print order
FirmwareValues(lead1, lead2) ==
  [j \in 1 .. 6 |-> printJson(emitJson(lead1, lead2))[j][2]]
AllKeys(l) == l.obj /\ \A j \in 1 .. 6 : hasKey(l, Keys[j])

C18_AutoStart ==
  /\ autoCond(app) => app.timer = "armed"
  /\ app.ev = "autoStart" =>
        /\ app.isRecording
        /\ app.recordedData # 0
        /\ app.heap[app.recordedData] = <<>>
        /\ app.recordingProgress = 0

\* the direct-form-II section written out: its inner value and its output
RefX(s, in) == in - MulC(s.a1, s.z1) - MulC(s.a2, s.z2)
RefOut(s, in) == MulC(s.b0, RefX(s, in)) + MulC(s.b1, s.z1) + MulC(s.b2, s.z2)
CoefsOf(s) == <<s.a1, s.a2, s.b0, s.b1, s.b2>>

\* C21: a call ECGFilter(ch, input) applies stages 0, 1, 2, 3 of channel ch
\* in that order, each stage's output being the next stage's input, each
\* stage computing x = in - a1*z1 - a2*z2, out = b0*x + b1*z1 + b2*z2 and
\* then z2 := z1, z1 := x; the other channel's stages and every coefficient
\* stay as they were, and both channels have the same coefficients at each
\* stage index.
C21_ReferenceCascade ==
  [][(ticks' = ticks + 1) =>
       \E ch \in Channels :
          LET in0 == IF ch = 0 THEN tk'.raw1 ELSE tk'.raw2
              in1 == RefOut(st[ch][0], in0)
              in2 == RefOut(st[ch][1], in1)
              in3 == RefOut(st[ch][2], in2)
              y == RefOut(st[ch][3], in3)
              ins == <<in0, in1, in2, in3>>
          IN  /\ tk'.steps = (IF ch = 0 THEN <<"filter1">> ELSE <<"filter2">>)
              /\ (IF ch = 0 THEN tk'.f1 ELSE tk'.f2) = y
              /\ \A i \in Stages :
                    /\ st'[ch][i].z1 = RefX(st[ch][i], ins[i + 1])
                    /\ st'[ch][i].z2 = st[ch][i].z1
                    /\ CoefsOf(st'[ch][i]) = CoefsOf(st[ch][i])
                    /\ CoefsOf(st'[0][i]) = CoefsOf(st'[1][i])
              /\ st'[1 - ch] = st[1 - ch]]_vars
\* several calls on both channels, states and output away from zero
C21_Witness ==
  /\ ticks = MaxCalls /\ tk.steps = <<"filter2">> /\ tk.f2 # 0
  /\ st[0][3].z2 # 0 /\ st[1][3].z2 # 0 /\ st[0][0].z2 # st[0][0].z1
  /\ st[0] # st[1]

\* C22: once `calibrated` is true, baseline1, baseline2, gain1 and gain2
\* keep their values in every later step, whatever samples arrive.
C22_FixedAtTransition ==
  [][cal.calibrated =>
       /\ cal'.baseline1 = cal.baseline1 /\ cal'.baseline2 = cal.baseline2
       /\ cal'.gain1 = cal.gain1 /\ cal'.gain2 = cal.gain2]_vars
\* a tick after the transition brought a sample beyond the extremes the
\* baseline was computed from
C22_Witness ==
  /\ ticks > 1 /\ tk.wasCal /\ cal.calibrated
  /\ (tk.f1 = cal.max1_ \/ tk.f1 = cal.min1_)
  /\ cal.baseline1 # Half(cal.max1_ + cal.min1_)
  /\ cal.gain1.den # floorAmp(Half(cal.max1_ - cal.min1_))

\* the four derived fields of r follow from its lead1 and lead2
Derived(r) ==
  /\ r.lead3 = r.lead2 - r.lead1
  /\ 2 * r.avr = -(r.lead1 + r.lead2)
  /\ 2 * r.avl = 2 * r.lead1 - r.lead2
  /\ 2 * r.avf = 2 * r.lead2 - r.lead1

\* C23 as stated: every record of every source, the square-wave sketch
\* included, has lead3 = lead2 - lead1, aVR = -(lead1 + lead2)/2,
\* aVL = lead1 - lead2/2, aVF = lead2 - lead1/2.
C23_AllVariantsDerive ==
  /\ dv.by # "none" => Derived(dv.out)
  /\ sq.count > 0 => Derived(sq.out)
\* C23 as amended: the records of the dual-input sketch and of the JSON
\* sender in both modes carry the leads they were given and the four fields
\* derived from them; the square-wave sketch derives nothing: its lead3,
\* aVR, aVL and aVF are 0 whatever lead2 is, so its record satisfies the
\* derivation exactly when lead2 is 0.
C23_SendersDerive ==
  /\ dv.by # "none" =>
        (Derived(dv.out) /\ dv.out.lead1 = dv.lead1 /\ dv.out.lead2 = dv.lead2)
  /\ sq.count > 0 =>
        /\ sq.out.lead3 = 0 /\ sq.out.avr = 0 /\ sq.out.avl = 0 /\ sq.out.avf = 0
        /\ Derived(sq.out) <=> (sq.out.lead2 = 0)
\* an analog-mode record with all fields away from zero, and a high record
\* of the square wave
C23_Witness ==
  /\ dv.by = "analog" /\ dv.out.lead3 # 0 /\ dv.out.avr # 0
  /\ dv.out.avl # 0 /\ dv.out.avf # 0 /\ dv.lead1 # dv.lead2
  /\ sq.count > 0 /\ sq.out.lead2 = 1 * FX

\* C27: the scheduler decides across a wrap of micros() as it would with
\* unbounded time. A call of loop() is due exactly when a whole interval of
\* clock time has passed since the deadline last served, the stored
\* timestamp is the start value plus one interval per tick modulo the
\* counter width, and whenever a call is not due the number of ticks is the
\* number of whole intervals elapsed since the scheduler started: no
\* deadline is lost (no stall) and none is served early (no burst).
C27_WrapSafe ==
  sq.lastInit =>
    /\ due(micros(sq.clk), sq.lastMicros) <=>
          (sq.clk - sq.lastMicros0 >= (sq.count + 1) * IntervalSteps)
    /\ sq.lastMicros = (sq.lastMicros0 + sq.count * IntervalSteps) % WrapSteps
    /\ ~due(micros(sq.clk), sq.lastMicros) =>
          sq.count = (sq.clk - sq.lastMicros0) \div IntervalSteps
\* the counter has wrapped, the stored timestamp has not, and the call is
\* due; ticks were served before the wrap
C27_Witness ==
  /\ sq.lastInit /\ sq.count >= 2
  /\ sq.clk >= WrapSteps /\ sq.lastMicros > micros(sq.clk)
  /\ due(micros(sq.clk), sq.lastMicros)

\* the step is the read loop taking one line that parses to a sample
SampleRead == app'.ev = "line" /\ app'.nLines = app.nLines + 1 /\ app'.arr # <<>>

\* C24: while isCalibrating is true, a sample line that the read loop takes
\* changes no ring buffer and does not advance the write index.
C24_NoWriteWhileCalibrating ==
  [][(app.isCalibrating /\ SampleRead) =>
       (app'.buffer = app.buffer /\ app'.writeIndex = app.writeIndex)]_vars

\* C25: while a recording is in progress, every sample the read loop accepts
\* outside calibration mode adds one row (one value for each of the six
\* leads) to the recording.
C25_RecordingCaptures ==
  [][(/\ app.isRecording /\ ~app.isCalibrating
      /\ \A i \in 1 .. MaxConnects : ~app.conns[i].isCalibrating
      /\ SampleRead) =>
       /\ Len(app'.heap) = Len(app.heap)
       /\ Len(app'.heap[app.recordedData]) = Len(app.heap[app.recordedData]) + 1]_vars

\* C26: calibration mode is never on without a fallback timer pending that
\* will turn it off, so it cannot stay on for good.
C26_CalibrationEnds ==
  app.isCalibrating => \E i \in 1 .. MaxConnects : app.conns[i].calibTimeout

\* C29: isRecording implies connected.
C29_RecordingImpliesConnected == app.isRecording => app.connected

\* the six arrays have the length the settings give, and the write index
\* lies inside them
BufferShape(a) ==
  /\ Len(a.buffer) = 6
  /\ \A j \in 1 .. 6 :
        /\ a.buffer[j].len = Max2(1, a.sampleRate * a.secondsWindow)
        /\ \A p \in a.buffer[j].data : p[1] \in 0 .. a.buffer[j].len - 1
  /\ a.writeIndex \in 0 .. a.buffer[1].len - 1
\* what a step does to the buffers
BufferStep ==
  /\ BufferShape(app')
  /\ (SampleRead /\ \A i \in 1 .. MaxConnects :
                      (app.conns[i].pc = "reading" => ~app.conns[i].isCalibrating))
       => /\ \A j \in 1 .. 6 :
               /\ <<app.writeIndex, app'.arr[j]>> \in app'.buffer[j].data
               /\ \A p \in app.buffer[j].data :
                     (p[1] # app.writeIndex => p \in app'.buffer[j].data)
          /\ app'.writeIndex = (app.writeIndex + 1) % app.buffer[1].len
  /\ (<<app'.secondsWindow, app'.sampleRate>> # <<app.secondsWindow, app.sampleRate>>)
       => /\ app'.writeIndex = 0
          /\ \A j \in 1 .. 6 : app'.buffer[j].data = {}
\* C28: in every state the six buffers have the length
\* L = max(1, floor(sampleRate * secondsWindow)) and 0 <= writeIndex < L; a
\* sample the read loop writes goes into all six buffers at the write index,
\* which then advances by one modulo L; a change of secondsWindow or
\* sampleRate makes six new empty buffers and resets the write index to 0.
C28_RingBuffer ==
  /\ BufferShape(app)
  /\ [][BufferStep]_vars
\* the write index has wrapped in a window of two samples that was set
\* while the connection was reading
C28_Witness ==
  /\ app.ev = "line" /\ app.nLines = 2 /\ app.arr # <<>>
  /\ app.buffer[1].len = 2 /\ app.writeIndex = 0
  /\ \A j \in 1 .. 6 : <<1, app.arr[j]>> \in app.buffer[j].data

====
